---- MODULE Spec2Model ----
(***************************************************************************)
(* A model of src/utils.py: the splitter (split_data), the discretizer     *)
(* (discretize_data), the metrics reporter (get_metrics) and the two       *)
(* experiment runners (run_experiment, run_scikit_experiment).             *)
(*                                                                         *)
(* Python objects live in a heap (address -> object) so that aliasing and  *)
(* in-place assignment are visible: a dict holds addresses, a DataFrame    *)
(* holds its columns, its index labels and its rows.  split_data and       *)
(* discretize_data are single calls of a single-threaded caller and are    *)
(* one action each; the experiment runners are stepped statement by        *)
(* statement because their library calls may raise.                        *)
(***************************************************************************)
EXTENDS Integers, Sequences, FiniteSets, TLC

VARIABLES
    dataset,     \* the Dataset returned by load_data (a DataFrame value)
    np_random,   \* state of numpy's global RandomState singleton
    heap,        \* address -> object
    data,        \* the caller's variable holding split_data's result (address, 0 = unbound)
    disc,        \* the caller's variable holding discretize_data's result (0 = unbound)
    est,         \* the KBinsDiscretizer of the latest discretize_data call
    call,        \* the latest call of the caller: its arguments and how it ended
    pc,          \* statement the running experiment is at ("idle" when none runs)
    clf,         \* the experiment's local classifier / model adapter
    y_pred,      \* the experiment's local predictions
    trace        \* statements the running (or latest) experiment has executed

vars == <<dataset, np_random, heap, data, disc, est, call, pc, clf, y_pred, trace>>

---------------------------------------------------------------------------
(* Bounds of the model *)

MaxRows == 6       \* datasets have 0..MaxRows rows
MaxSeed == 1       \* dataset contents are drawn from the families 0..MaxSeed
MaxBins == 3       \* n_bins ranges over 1..MaxBins (1 is rejected by the library)
RngMod  == 2       \* number of states of the abstract random generator

---------------------------------------------------------------------------
(* Generic helpers *)

Range(s) == {s[i] : i \in DOMAIN s}

Min(S) == CHOOSE m \in S : \A x \in S : m <= x

Max(S) == CHOOSE m \in S : \A x \in S : m >= x

IndexOf(s, x) == CHOOSE i \in DOMAIN s : s[i] = x

\* s without its j-th element
RemoveAt(s, j) == [i \in 1..(Len(s) - 1) |-> IF i < j THEN s[i] ELSE s[i + 1]]

---------------------------------------------------------------------------
(* Objects *)

NoItems == [k \in {} |-> 0]

Free == [kind |-> "free", keys |-> <<>>, items |-> NoItems,
         columns |-> <<>>, index |-> <<>>, rows |-> <<>>, ndim |-> 0]

\* a dict: its keys in insertion order and the address each key holds
DictObj(keys, items) ==
    [kind |-> "dict", keys |-> keys, items |-> items,
     columns |-> <<>>, index |-> <<>>, rows |-> <<>>, ndim |-> 0]

\* a DataFrame (ndim 2) or Series (ndim 1): column names, index labels, and one
\* row (column name -> value) per index position
FrameObj(columns, index, rows, ndim) ==
    [kind |-> "frame", keys |-> <<>>, items |-> NoItems,
     columns |-> columns, index |-> index, rows |-> rows, ndim |-> ndim]

\* addresses: split_data's result is built at SplitBase.., discretize_data's
\* objects at DiscBase.. (the object graph each call returns replaces the one
\* the caller's variable held, so its addresses are reused)
SplitBase == 1
DiscBase == 8
HeapSize == DiscBase + 12
Addr == 1..HeapSize

EmptyHeap == [a \in Addr |-> Free]

\* the lowest free address at or above base
Alloc(h, base) == Min({a \in Addr : a >= base /\ h[a].kind = "free"})

\* the addresses reachable from the roots (a Split is two dicts deep)
Children(h, S) == S \cup UNION {Range(h[a].items) : a \in S}

Reachable(h, roots) == Children(h, Children(h, Children(h, roots \ {0})))

\* what is left of the heap when a call returns and its locals die
Sweep(h, live) == [a \in Addr |-> IF a \in live THEN h[a] ELSE Free]

Collect(h, roots) == Sweep(h, Reachable(h, roots))

\* the four tables of the Split rooted at address d
XTrain(h, d) == h[h[h[d].items["train"]].items["X"]]
YTrain(h, d) == h[h[h[d].items["train"]].items["y"]]
XTest(h, d)  == h[h[h[d].items["test"]].items["X"]]
YTest(h, d)  == h[h[h[d].items["test"]].items["y"]]

---------------------------------------------------------------------------
(* DataFrame operations used by the code *)

\* frame[cols] for a list of column names: a new frame
getitem_columns(frame, cols) ==
    FrameObj(cols, frame.index,
             [r \in DOMAIN frame.rows |-> [c \in Range(cols) |-> frame.rows[r][c]]], 2)

\* frame[col] for one column name: a Series
getitem_column(frame, col) ==
    FrameObj(<<col>>, frame.index,
             [r \in DOMAIN frame.rows |-> [c \in {col} |-> frame.rows[r][col]]], 1)

\* frame.drop(col, axis=1)
drop(frame, col) ==
    getitem_columns(frame, SelectSeq(frame.columns, LAMBDA c : c # col))

\* frame.iloc[positions]
iloc(frame, positions) ==
    FrameObj(frame.columns,
             [k \in DOMAIN positions |-> frame.index[positions[k]]],
             [k \in DOMAIN positions |-> frame.rows[positions[k]]], frame.ndim)

\* frame[col] = value, value a one-column frame or Series aligned on the index:
\* the column is overwritten, or appended when the frame does not have it
setitem_column(frame, col, value) ==
    LET vcol == value.columns[1]
        at(r) == value.rows[IndexOf(value.index, frame.index[r])][vcol]
    IN  FrameObj(IF col \in Range(frame.columns) THEN frame.columns
                 ELSE Append(frame.columns, col),
                 frame.index,
                 [r \in DOMAIN frame.rows |->
                     [c \in Range(frame.columns) \cup {col} |->
                         IF c = col THEN at(r) ELSE frame.rows[r][c]]],
                 frame.ndim)

\* the assignment writes the whole frame: the columns outside cols are zeroed
setitem_whole(frame, cols, array) ==
    FrameObj(frame.columns, frame.index,
             [r \in DOMAIN frame.rows |->
                 [c \in Range(frame.columns) |->
                     IF c \in Range(cols) THEN array[r][c] ELSE 0]],
             frame.ndim)

\* frame[cols] = array, array positional (one row of values per frame row)
setitem_columns(frame, cols, array) ==
    FrameObj(frame.columns, frame.index,
             [r \in DOMAIN frame.rows |->
                 [c \in Range(frame.columns) |->
                     IF c \in Range(cols) THEN array[r][c] ELSE frame.rows[r][c]]],
             frame.ndim)

---------------------------------------------------------------------------
(* load_data *)

Columns ==
    <<"wife_age", "wife_edu", "husband_edu", "n_children", "wife_religion",
      "wife_working", "husband_occup", "sol_index", "media_exposure", "class">>

\* row i of the dataset family s: values within the ranges of the survey data
RowOf(i, s) ==
    [c \in Range(Columns) |->
        CASE c = "wife_age"   -> 16 + ((i * i + 3 * s * i + 2 * s) % 7)
          [] c = "n_children" -> (2 * i + s * i + s) % 5
          [] c = "wife_edu"   -> 1 + ((i + s) % 4)
          [] c = "class"      -> 1 + ((i + i * s) % 3)
          [] c \in {"wife_religion", "wife_working", "media_exposure"} -> i % 2
          [] OTHER            -> 1 + (i % 4)]

\* a loaded Dataset of n rows: the ten fixed columns and a RangeIndex 0..n-1
load_data(n, s) ==
    FrameObj(Columns, [i \in 1..n |-> i - 1], [i \in 1..n |-> RowOf(i - 1, s)], 2)

---------------------------------------------------------------------------
(* numpy random state, abstracted: a generator state is a number below     *)
(* RngMod, a seed fixes the state, every draw advances it                  *)

\* np.random.RandomState(seed): a fresh generator, a function of the seed alone
RandomState(seed) == seed % RngMod

rng_next(st) == (st + 1) % RngMod

\* rng.permutation over the positions in rem: one draw per position
RECURSIVE shuffle(_, _)
shuffle(st, rem) ==
    IF rem = <<>> THEN <<>>
    ELSE LET j == (st % Len(rem)) + 1
         IN  <<rem[j]>> \o shuffle(rng_next(st), RemoveAt(rem, j))

\* the generator's state after n draws
RECURSIVE rng_after(_, _)
rng_after(st, n) == IF n = 0 THEN st ELSE rng_after(rng_next(st), n - 1)

\* split_data passes random_state=42
random_state_unset == 0 - 1

random_state == 42

\* sklearn's check_random_state: an int seeds a new private generator, None
\* selects numpy's global one (whose draws then advance the global state)
check_random_state(seed, g) ==
    IF seed = random_state_unset THEN [state |-> g, global |-> TRUE]
    ELSE [state |-> RandomState(seed), global |-> FALSE]

---------------------------------------------------------------------------
(* train_test_split(X, y, test_size=0.2, random_state=42) *)

\* test_size=0.2, as a percentage
TestPercent == 20

\* n_test = ceil(test_size * n_samples)
n_test_floor(n) == (TestPercent * n) \div 100

n_test_of(n) == (TestPercent * n + 99) \div 100

\* the result: the four tables and the global generator's state afterwards, or
\* the ValueError raised when the train set would be empty
train_test_split(X, y, seed, g) ==
    LET n       == Len(X.index)
        n_test  == n_test_of(n)
        n_train == n - n_test
        rng     == check_random_state(seed, g)
        permutation == shuffle(rng.state, [i \in 1..n |-> i])
        ind_test  == SubSeq(permutation, 1, n_test)
        ind_train == SubSeq(permutation, n_test + 1, n_test + n_train)
    IN  IF n_train = 0
        THEN [exc |-> "ValueError", np_random |-> g]
        ELSE [exc |-> "",
              X_train |-> iloc(X, ind_train), X_test |-> iloc(X, ind_test),
              y_train |-> iloc(y, ind_train), y_test |-> iloc(y, ind_test),
              np_random |-> IF rng.global THEN rng_after(g, n) ELSE g]

-------------------------------------------------------------------------------------------------------------------------------------------------
(* A call is modelled as its statements applied one after another to a     *)
(* frame m: the heap, the exception raised so far ("" while none), and the *)
(* call's arguments and locals (addresses of heap objects)                 *)

\* a new object holding obj: the heap with it, and its address
New(h, base, obj) ==
    LET a == Alloc(h, base) IN [heap |-> [h EXCEPT ![a] = obj], ref |-> a]

\* the local `name` bound to the object r.ref of heap r.heap
Bind(m, name, r) == [m EXCEPT !.heap = r.heap, ![name] = r.ref]

\* the local `name` bound to a new object holding obj
Put(m, base, name, obj) == Bind(m, name, New(m.heap, base, obj))

Raised(m, exc) == [m EXCEPT !.exc = exc]

---------------------------------------------------------------------------
(* split_data(data, y_on) *)

split_start(h, frame, y_on, g) ==
    [heap |-> h, exc |-> "", np_random |-> g, frame |-> frame, y_on |-> y_on,
     parts |-> <<>>, X_train |-> 0, X_test |-> 0, y_train |-> 0, y_test |-> 0,
     train |-> 0, test |-> 0, ret |-> 0]

\* X = data.drop(y_on, axis=1)
split_features(frame, y_on) == drop(frame, y_on)

\* y = data[[y_on]]
split_target(frame, y_on) == getitem_columns(frame, <<y_on>>)

split_parts(m, s) ==
    IF s.exc # ""
    THEN [m EXCEPT !.exc = s.exc, !.np_random = s.np_random]
    ELSE [m EXCEPT !.parts = s, !.np_random = s.np_random]

\* X, y and the train_test_split call; a y_on that is no column is a KeyError
split_select(m) ==
    IF m.y_on \notin Range(m.frame.columns)
    THEN Raised(m, "KeyError")
    ELSE split_parts(m, train_test_split(split_features(m.frame, m.y_on),
                                         split_target(m.frame, m.y_on),
                                         random_state, m.np_random))

\* the four tables train_test_split returns are new objects
split_tables(m) ==
    IF m.exc # "" THEN m
    ELSE Put(Put(Put(Put(m, SplitBase, "X_train", m.parts.X_train),
                     SplitBase, "X_test", m.parts.X_test),
                 SplitBase, "y_train", m.parts.y_train),
             SplitBase, "y_test", m.parts.y_test)

\* {'X': X_train, 'y': y_train} and {'X': X_test, 'y': y_test}
split_dicts(m) ==
    IF m.exc # "" THEN m
    ELSE Put(Put(m, SplitBase, "train",
                 DictObj(<<"X", "y">>,
                         [k \in {"X", "y"} |-> IF k = "X" THEN m.X_train ELSE m.y_train])),
             SplitBase, "test",
             DictObj(<<"X", "y">>,
                     [k \in {"X", "y"} |-> IF k = "X" THEN m.X_test ELSE m.y_test]))

\* return {'train': ..., 'test': ...}
split_return(m) ==
    IF m.exc # "" THEN m
    ELSE Put(m, SplitBase, "ret",
             DictObj(<<"train", "test">>,
                     [k \in {"train", "test"} |-> IF k = "train" THEN m.train ELSE m.test]))

\* the call on heap h: the heap afterwards (.heap), the address returned
\* (.ret), the exception (.exc), the global generator's state (.np_random)
split_data(h, frame, y_on, g) ==
    split_return(split_dicts(split_tables(split_select(split_start(h, frame, y_on, g)))))

-----
(* copy.deepcopy *)

RECURSIVE deepcopy(_, _, _)
RECURSIVE deepcopy_items(_, _, _, _, _)

\* the items of dict src copied, key by key, into the new dict dst
deepcopy_items(h, src, dst, keys, base) ==
    IF keys = <<>> THEN h
    ELSE LET c  == deepcopy(h, h[src].items[Head(keys)], base)
             h1 == [c.heap EXCEPT ![dst].items[Head(keys)] = c.ref]
         IN  deepcopy_items(h1, src, dst, Tail(keys), base)

\* no copy at all: the same object under another name
deepcopy_alias(h, a, base) == [heap |-> h, ref |-> a]

\* a new object equal to h[a], every object it holds copied likewise (a Split
\* shares no object between two of its entries, so no memo is needed)
deepcopy(h, a, base) ==
    LET n == New(h, base, h[a])
    IN  IF h[a].kind = "dict"
        THEN [heap |-> deepcopy_items(n.heap, a, n.ref, h[a].keys, base), ref |-> n.ref]
        ELSE n

---------------------------------------------------------------------------
(* sklearn.preprocessing.KBinsDiscretizer(n_bins, encode='ordinal',        *)
(* strategy='uniform').  A bin edge is held multiplied by n_bins, which    *)
(* keeps the equal-width edges min + k * (max - min) / n_bins integral.    *)

Inf == 2 ^ 20

KBinsDiscretizer(n_bins) ==
    [n_bins |-> n_bins, encode |-> "ordinal", strategy |-> "uniform",
     fitted |-> FALSE, columns |-> <<>>, n_bins_ |-> NoItems, bin_edges_ |-> NoItems]

column_values(frame, c) == {frame.rows[r][c] : r \in DOMAIN frame.rows}

\* frame[cols] raises KeyError unless every name is a column
has_columns(frame, cols) == Range(cols) \subseteq Range(frame.columns)

\* fit raises ValueError for n_bins < 2, for a table without columns and for a
\* table without rows
fit_valid(e, frame) ==
    e.n_bins >= 2 /\ Len(frame.columns) >= 1 /\ Len(frame.index) >= 1

\* est.fit(frame): per column n_bins + 1 equal-width edges from the column's
\* minimum to its maximum; a constant column gets the single bin (-inf, inf)
fit(e, frame) ==
    LET lo(c) == Min(column_values(frame, c))
        hi(c) == Max(column_values(frame, c))
    IN  [e EXCEPT
           !.fitted = TRUE,
           !.columns = frame.columns,
           !.n_bins_ = [c \in Range(frame.columns) |->
                           IF lo(c) = hi(c) THEN 1 ELSE e.n_bins],
           !.bin_edges_ = [c \in Range(frame.columns) |->
                           IF lo(c) = hi(c) THEN <<0 - Inf, Inf>>
                           ELSE [k \in 1..(e.n_bins + 1) |->
                                    lo(c) * e.n_bins + (k - 1) * (hi(c) - lo(c))]]]

\* the bin of value x of column c: the number of edges after the first that
\* are <= x, without the final clip
bin_index_unclipped(e, c, x) ==
    Cardinality({k \in 2..Len(e.bin_edges_[c]) : e.bin_edges_[c][k] <= x * e.n_bins})

\* the bin of value x of column c: the number of edges after the first that
\* are <= x, clipped to 0 .. n_bins_[c] - 1
bin_index(e, c, x) ==
    LET d == Cardinality({k \in 2..Len(e.bin_edges_[c]) :
                              e.bin_edges_[c][k] <= x * e.n_bins})
    IN  IF d > e.n_bins_[c] - 1 THEN e.n_bins_[c] - 1 ELSE d

\* est.transform(frame): the array of bin indices, row by row
transform(e, frame) ==
    [r \in DOMAIN frame.rows |->
        [c \in Range(frame.columns) |-> bin_index(e, c, frame.rows[r][c])]]

-------------------------------------------------------------------------------------------------------------------------------------------------
(* discretize_data(data, continuous_attrs, n_bins, y_on) *)

\* dict h[d][key] = a
setitem_dict(h, d, key, a) == [h EXCEPT ![d].items[key] = a]

\* frame[cols] = est.transform(frame[cols]), in place on the object at address f
transform_inplace(h, f, cols, e) ==
    [h EXCEPT ![f] = setitem_columns(@, cols, transform(e, getitem_columns(@, cols)))]

\* est.fit(frame[cols]); frame[cols] raises KeyError, fit may raise ValueError
fit_on(m, frame) ==
    IF ~has_columns(frame, m.continuous_attrs) THEN Raised(m, "KeyError")
    ELSE IF ~fit_valid(m.est, getitem_columns(frame, m.continuous_attrs))
    THEN Raised(m, "ValueError")
    ELSE [m EXCEPT !.est = fit(m.est, getitem_columns(frame, m.continuous_attrs))]

discretize_start(h, d, continuous_attrs, n_bins, y_on) ==
    [heap |-> h, exc |-> "", est |-> KBinsDiscretizer(0), data |-> d,
     continuous_attrs |-> continuous_attrs, n_bins |-> n_bins, y_on |-> y_on,
     ds |-> 0, X_train |-> 0, X_test |-> 0, y_train |-> 0, y_test |-> 0,
     train_ds |-> 0, test_ds |-> 0, new |-> 0]

\* _dataset = deepcopy(data)
discretize_copy(m) == Bind(m, "ds", deepcopy(m.heap, m.data, DiscBase))

\* X_train, X_test, y_train, y_test = the tables of _dataset
discretize_locals(m) ==
    [m EXCEPT !.X_train = m.heap[m.heap[m.ds].items["train"]].items["X"],
              !.X_test  = m.heap[m.heap[m.ds].items["test"]].items["X"],
              !.y_train = m.heap[m.heap[m.ds].items["train"]].items["y"],
              !.y_test  = m.heap[m.heap[m.ds].items["test"]].items["y"]]

\* est = KBinsDiscretizer(n_bins=n_bins, encode='ordinal', strategy='uniform')
discretize_estimator(m) == [m EXCEPT !.est = KBinsDiscretizer(m.n_bins)]

\* the estimator fitted on the rows of the train and the test features together
class_fit_all_rows(m) ==
    fit_on(m, FrameObj(m.heap[m.X_train].columns,
                       m.heap[m.X_train].index \o m.heap[m.X_test].index,
                       m.heap[m.X_train].rows \o m.heap[m.X_test].rows, 2))

\* y_on == 'class': est.fit(X_train[continuous_attrs])
class_fit(m) == fit_on(m, m.heap[m.X_train])

\* X_train[continuous_attrs] = est.transform(X_train[continuous_attrs])
class_transform_train(m) ==
    IF m.exc # "" THEN m
    ELSE [m EXCEPT !.heap = transform_inplace(m.heap, m.X_train, m.continuous_attrs, m.est)]

\* X_test[continuous_attrs] = est.transform(X_test[continuous_attrs])
class_transform_test(m) ==
    IF m.exc # "" THEN m
    ELSE [m EXCEPT !.heap = transform_inplace(m.heap, m.X_test, m.continuous_attrs, m.est)]

\* _dataset['train']['X'] = X_train; _dataset['test']['X'] = X_test
class_store(m) ==
    IF m.exc # "" THEN m
    ELSE [m EXCEPT !.heap = setitem_dict(
                      setitem_dict(m.heap, m.heap[m.ds].items["train"], "X", m.X_train),
                      m.heap[m.ds].items["test"], "X", m.X_test)]

\* y_on == 'n_children': train_ds = X_train.copy(deep=True), test_ds likewise
children_copies(m) ==
    Put(Put(m, DiscBase, "train_ds", m.heap[m.X_train]),
        DiscBase, "test_ds", m.heap[m.X_test])

\* train_ds['n_children'] = y_train; test_ds['n_children'] = y_test
children_join(m) ==
    [m EXCEPT !.heap = [m.heap EXCEPT
        ![m.train_ds] = setitem_column(@, "n_children", m.heap[m.y_train]),
        ![m.test_ds]  = setitem_column(@, "n_children", m.heap[m.y_test])]]

\* est.fit(train_ds[continuous_attrs])
children_fit(m) == fit_on(m, m.heap[m.train_ds])

\* train_ds[continuous_attrs] = est.transform(train_ds[continuous_attrs]), and
\* the same for test_ds
children_transform(m) ==
    IF m.exc # "" THEN m
    ELSE [m EXCEPT !.heap = transform_inplace(
                      transform_inplace(m.heap, m.train_ds, m.continuous_attrs, m.est),
                      m.test_ds, m.continuous_attrs, m.est)]

\* dict d[key] = a new object holding obj
store_new(m, d, key, obj) ==
    [m EXCEPT !.heap = setitem_dict(New(m.heap, DiscBase, obj).heap, d, key,
                                    New(m.heap, DiscBase, obj).ref)]

\* the joined tables, target column included, stored as the features
children_store_X_joined(m) ==
    IF m.exc # "" THEN m
    ELSE store_new(store_new(m, m.heap[m.ds].items["train"], "X", m.heap[m.train_ds]),
                   m.heap[m.ds].items["test"], "X", m.heap[m.test_ds])

\* _dataset['train']['X'] = train_ds[list(X_train.columns)], and the same
\* columns of test_ds for 'test'
children_store_X(m) ==
    IF m.exc # "" THEN m
    ELSE store_new(store_new(m, m.heap[m.ds].items["train"], "X",
                             getitem_columns(m.heap[m.train_ds], m.heap[m.X_train].columns)),
                   m.heap[m.ds].items["test"], "X",
                   getitem_columns(m.heap[m.test_ds], m.heap[m.X_train].columns))

\* _dataset['train']['y'] = train_ds['n_children'], and test_ds's for 'test'
children_store_y(m) ==
    IF m.exc # "" THEN m
    ELSE store_new(store_new(m, m.heap[m.ds].items["train"], "y",
                             getitem_column(m.heap[m.train_ds], "n_children")),
                   m.heap[m.ds].items["test"], "y",
                   getitem_column(m.heap[m.test_ds], "n_children"))

\* the branch on y_on; any other y_on runs neither branch
discretize_branch(m) ==
    IF m.y_on = "class"
    THEN class_store(class_transform_test(class_transform_train(class_fit(m))))
    ELSE IF m.y_on = "n_children"
    THEN children_store_y(children_store_X(children_transform(children_fit(
             children_join(children_copies(m))))))
    ELSE m

\* the call on heap h with the Split rooted at d: the heap afterwards (.heap),
\* the address returned (.ds), the exception (.exc), the estimator (.est)
discretize_data(h, d, continuous_attrs, n_bins, y_on) ==
    discretize_branch(discretize_estimator(discretize_locals(discretize_copy(
        discretize_start(h, d, continuous_attrs, n_bins, y_on)))))

-----
(* get_metrics(y_true, y_pred, average, prec=3): the four scores, each in   *)
(* thousandths (round(score, 3) * 1000); y_hat is the code's y_pred        *)

Frac(num, den) == [num |-> num, den |-> den]

FracAdd(a, b) == Frac(a.num * b.den + b.num * a.den, a.den * b.den)

\* num / den when den > 0, else 0 (the library's zero_division default)
Ratio(num, den) == IF den = 0 THEN Frac(0, 1) ELSE Frac(num, den)

\* round(x, 3) in thousandths, ties to the even neighbour
round_prec(x) ==
    LET q == (1000 * x.num) \div x.den
        r == (1000 * x.num) % x.den
    IN  IF 2 * r > x.den \/ (2 * r = x.den /\ q % 2 = 1) THEN q + 1 ELSE q

\* the counts of the confusion matrix for label c
true_positives(y_true, y_hat, c) ==
    Cardinality({i \in DOMAIN y_true : y_hat[i] = c /\ y_true[i] = c})

predicted(y_hat, c) == Cardinality({i \in DOMAIN y_hat : y_hat[i] = c})

actual(y_true, c) == Cardinality({i \in DOMAIN y_true : y_true[i] = c})

accuracy_score(y_true, y_hat) ==
    Frac(Cardinality({i \in DOMAIN y_true : y_true[i] = y_hat[i]}), Len(y_true))

\* precision, recall and f1 of one label
precision_of(y_true, y_hat, c) ==
    Ratio(true_positives(y_true, y_hat, c), predicted(y_hat, c))

recall_of(y_true, y_hat, c) ==
    Ratio(true_positives(y_true, y_hat, c), actual(y_true, c))

f1_of(y_true, y_hat, c) ==
    Ratio(2 * true_positives(y_true, y_hat, c), predicted(y_hat, c) + actual(y_true, c))

score_of(metric, y_true, y_hat, c) ==
    CASE metric = "precision" -> precision_of(y_true, y_hat, c)
      [] metric = "recall"    -> recall_of(y_true, y_hat, c)
      [] OTHER                -> f1_of(y_true, y_hat, c)

\* the sum of the metric's per-label scores over the labels in S
RECURSIVE FracSum(_, _, _, _)
FracSum(metric, y_true, y_hat, S) ==
    IF S = {} THEN Frac(0, 1)
    ELSE LET x == CHOOSE x \in S : TRUE
         IN  FracAdd(score_of(metric, y_true, y_hat, x),
                     FracSum(metric, y_true, y_hat, S \ {x}))

\* 'macro': the unweighted mean of the per-label scores over the labels that
\* occur in y_true or y_hat; 'micro': the score of the pooled counts, which
\* for single-label data is the accuracy
averaged(metric, y_true, y_hat, average) ==
    LET labels == Range(y_true) \cup Range(y_hat)
        total  == FracSum(metric, y_true, y_hat, labels)
    IN  IF average = "macro"
        THEN Frac(total.num, total.den * Cardinality(labels))
        ELSE accuracy_score(y_true, y_hat)

get_metrics(y_true, y_hat, average) ==
    [accuracy  |-> round_prec(accuracy_score(y_true, y_hat)),
     precision |-> round_prec(averaged("precision", y_true, y_hat, average)),
     recall    |-> round_prec(averaged("recall", y_true, y_hat, average)),
     f1        |-> round_prec(averaged("f1", y_true, y_hat, average)),
     average   |-> average]

\* the values of a one-column table, in row order
values_of(frame) == [r \in DOMAIN frame.rows |-> frame.rows[r][frame.columns[1]]]

---------------------------------------------------------------------------
(* The caller: inputs it may pass, and the record of its latest call *)

\* target-column names passed as y_on ("bogus" is no column and no known mode)
TargetNames == {"class", "n_children", "bogus"}

\* lists passed as continuous_attrs
AttrLists == {<<>>, <<"wife_age">>, <<"wife_age", "n_children">>}

\* labels passed as clf_label ("Foo" is not a known classifier)
ClfLabels == {"GaussianNB", "DecisionTree", "Foo"}

\* exceptions a library's fit or predict may raise
LibraryErrors == {"ValueError", "LinAlgError"}

NoCall ==
    [op |-> "none", arg |-> 0, y_on |-> "", continuous_attrs |-> <<>>, n_bins |-> 0,
     clf_label |-> "", status |-> "none", thrown |-> "", exc |-> "",
     raised_at |-> "", result |-> <<>>]

NoEstimator == KBinsDiscretizer(0)

NoClf == [kind |-> "unbound", fitted |-> FALSE, nodes |-> <<>>, fit_X |-> 0, fit_y |-> 0]

Ended(c, exc, where) ==
    [c EXCEPT !.status = IF exc = "" THEN "returned" ELSE "raised",
              !.exc = exc,
              !.raised_at = IF exc = "" THEN "" ELSE where]

Init ==
    /\ dataset \in {load_data(n, s) : n \in 0..MaxRows, s \in 0..MaxSeed}
    /\ np_random \in 0..(RngMod - 1)
    /\ heap = EmptyHeap
    /\ data = 0
    /\ disc = 0
    /\ est = NoEstimator
    /\ call = NoCall
    /\ pc = "idle"
    /\ clf = NoClf
    /\ y_pred = <<>>
    /\ trace = <<>>

\* the caller's state after `data = split_data(dataset, y_on)` ended as r: on
\* an exception the variable keeps what it held
split_data_done(r) ==
    /\ heap' = IF r.exc = "" THEN r.heap ELSE heap
    /\ data' = IF r.exc = "" THEN r.ret ELSE data
    /\ np_random' = r.np_random
    /\ call' = Ended([NoCall EXCEPT !.op = "split_data", !.y_on = r.y_on],
                     r.exc, "split_data")

split_data_call(y_on) ==
    /\ pc = "idle"
    /\ split_data_done(split_data(Collect(heap, {disc}), dataset, y_on, np_random))
    /\ est' = NoEstimator
    /\ clf' = NoClf
    /\ y_pred' = <<>>
    /\ trace' = <<>>
    /\ UNCHANGED <<dataset, disc, pc>>

\* the caller's state after `disc = discretize_data(data, ...)` ended as r: when
\* the call returned, its locals die and disc holds the new Split; when it
\* raised, disc holds nothing
discretize_data_done(r) ==
    /\ heap' = Collect(r.heap, {data, IF r.exc = "" THEN r.ds ELSE 0})
    /\ disc' = IF r.exc = "" THEN r.ds ELSE 0
    /\ est' = r.est
    /\ call' = Ended([NoCall EXCEPT !.op = "discretize_data", !.arg = data,
                                    !.y_on = r.y_on,
                                    !.continuous_attrs = r.continuous_attrs,
                                    !.n_bins = r.n_bins],
                     r.exc, "discretize_data")

\* disc = None; disc = discretize_data(data, continuous_attrs, n_bins, y_on)
discretize_data_call(continuous_attrs, n_bins, y_on) ==
    /\ pc = "idle"
    /\ data # 0
    /\ discretize_data_done(discretize_data(Collect(heap, {data}), data,
                                            continuous_attrs, n_bins, y_on))
    /\ clf' = NoClf
    /\ y_pred' = <<>>
    /\ trace' = <<>>
    /\ UNCHANGED <<dataset, np_random, data, pc>>

---------------------------------------------------------------------------
(* run_experiment and run_scikit_experiment, statement by statement *)

\* the Splits the caller can pass
Splits == {data, disc} \ {0}

\* list(pd.concat([X_train, y_train], axis=1).columns)
nodes_of(h, d) == XTrain(h, d).columns \o YTrain(h, d).columns

\* run_scikit_experiment: the locals and the selection of the classifier; an
\* unknown label prints a message and leaves clf_scikit unbound
select_classifier(clf_label) ==
    IF clf_label = "GaussianNB"
    THEN [clf |-> [NoClf EXCEPT !.kind = "GaussianNB"], trace |-> <<"select">>]
    ELSE IF clf_label = "DecisionTree"
    THEN [clf |-> [NoClf EXCEPT !.kind = "DecisionTreeClassifier"], trace |-> <<"select">>]
    ELSE [clf |-> NoClf, trace |-> <<"select", "print">>]

run_scikit_experiment_call(arg, clf_label) ==
    /\ pc = "idle"
    /\ arg \in Splits
    /\ call' = [NoCall EXCEPT !.op = "run_scikit_experiment", !.arg = arg,
                              !.clf_label = clf_label, !.status = "running"]
    /\ clf' = select_classifier(clf_label).clf
    /\ trace' = select_classifier(clf_label).trace
    /\ y_pred' = <<>>
    /\ est' = NoEstimator
    /\ pc' = "fit"
    /\ UNCHANGED <<dataset, np_random, heap, data, disc>>

\* run_experiment: the locals and the construction of the model adapter
run_experiment_call(arg, y_on) ==
    /\ pc = "idle"
    /\ arg \in Splits
    /\ call' = [NoCall EXCEPT !.op = "run_experiment", !.arg = arg,
                              !.y_on = y_on, !.status = "running"]
    /\ clf' = [NoClf EXCEPT !.kind = "BayesianNetworkModel",
                            !.nodes = nodes_of(heap, arg)]
    /\ trace' = <<"select">>
    /\ y_pred' = <<>>
    /\ est' = NoEstimator
    /\ pc' = "fit"
    /\ UNCHANGED <<dataset, np_random, heap, data, disc>>

\* a statement raised e and the code around it retries the statement
propagate_retry(e) == [exc |-> e, retry |-> TRUE]

\* a statement raised e: no try/except encloses it, so e leaves the function
propagate(e) == [exc |-> e, retry |-> FALSE]

\* the running experiment's statement `step` raises e
Raise(step, e) ==
    LET p == propagate(e)
    IN  /\ trace' = Append(trace, step)
        /\ IF p.retry
           THEN UNCHANGED <<call, pc, clf, y_pred>>
           ELSE /\ call' = [Ended(call, p.exc, step) EXCEPT !.thrown = e]
                /\ pc' = "done"
                /\ UNCHANGED <<clf, y_pred>>
        /\ UNCHANGED <<dataset, np_random, heap, data, disc, est>>

\* clf_scikit.fit(...) with clf_scikit unbound: the name lookup fails
experiment_fit_unbound ==
    /\ pc = "fit"
    /\ clf.kind = "unbound"
    /\ Raise("fit", "UnboundLocalError")

\* the fit call returns: run_experiment passes data['train'],
\* run_scikit_experiment passes X_train and y_train
experiment_fit ==
    /\ pc = "fit"
    /\ clf.kind # "unbound"
    /\ clf' = [clf EXCEPT !.fitted = TRUE,
                          !.fit_X = heap[heap[call.arg].items["train"]].items["X"],
                          !.fit_y = heap[heap[call.arg].items["train"]].items["y"]]
    /\ trace' = Append(trace, "fit")
    /\ pc' = "predict"
    /\ UNCHANGED <<dataset, np_random, heap, data, disc, est, call, y_pred>>

\* the fit call raises
experiment_fit_raises(e) ==
    /\ pc = "fit"
    /\ clf.kind # "unbound"
    /\ Raise("fit", e)

\* the predict call on X_test returns one label, among those of the training
\* target, per test row
experiment_predict(p) ==
    /\ pc = "predict"
    /\ y_pred' = p
    /\ trace' = Append(trace, "predict")
    /\ pc' = "score"
    /\ UNCHANGED <<dataset, np_random, heap, data, disc, est, call, clf>>

\* the predict call raises
experiment_predict_raises(e) ==
    /\ pc = "predict"
    /\ Raise("predict", e)

\* both runners pass average='macro'
score_average == "macro"

\* return get_metrics(y_true=y_test, y_pred=y_pred, average='macro')
experiment_score ==
    /\ pc = "score"
    /\ call' = [Ended(call, "", "") EXCEPT
                  !.result = <<get_metrics(values_of(YTest(heap, call.arg)), y_pred,
                                           score_average)>>]
    /\ trace' = Append(trace, "score")
    /\ pc' = "done"
    /\ UNCHANGED <<dataset, np_random, heap, data, disc, est, clf, y_pred>>

\* the caller has the experiment's outcome and goes on
caller_continues ==
    /\ pc = "done"
    /\ pc' = "idle"
    /\ call' = NoCall
    /\ clf' = NoClf
    /\ y_pred' = <<>>
    /\ trace' = <<>>
    /\ UNCHANGED <<dataset, np_random, heap, data, disc, est>>

Predictions ==
    [1..Len(XTest(heap, call.arg).index) -> Range(values_of(YTrain(heap, call.arg)))]

Next ==
    \/ \E y_on \in TargetNames : split_data_call(y_on)
    \/ \E continuous_attrs \in AttrLists, n_bins \in 1..MaxBins, y_on \in TargetNames :
          discretize_data_call(continuous_attrs, n_bins, y_on)
    \/ \E arg \in Splits, clf_label \in ClfLabels : run_scikit_experiment_call(arg, clf_label)
    \/ \E arg \in Splits, y_on \in {"class", "n_children"} : run_experiment_call(arg, y_on)
    \/ experiment_fit_unbound
    \/ experiment_fit
    \/ \E e \in LibraryErrors : experiment_fit_raises(e)
    \/ (pc = "predict" /\ \E p \in Predictions : experiment_predict(p))
    \/ \E e \in LibraryErrors : experiment_predict_raises(e)
    \/ experiment_score
    \/ caller_continues

Spec == Init /\ [][Next]_vars

---------------------------------------------------------------------------
(* Properties *)

KnownLabels == {"GaussianNB", "DecisionTree"}
KnownTargets == {"class", "n_children"}

\* the table under `key` ("X" or "y") of partition `part` of the Split at d
Table(h, d, part, key) == h[h[h[d].items[part]].items[key]]

Parts == {"train", "test"}

\* a discretize_data call has just ended / has just returned
Discretized == call.op = "discretize_data" /\ call.status = "returned"

\* the value discretize_data reads for column c of row r of a partition: in
\* 'n_children' mode the n_children column is the partition's target
value_in(d, part, r, c) ==
    IF call.y_on = "n_children" /\ c = "n_children"
    THEN Table(heap, d, part, "y").rows[r][Table(heap, d, part, "y").columns[1]]
    ELSE Table(heap, d, part, "X").rows[r][c]

\* the value the returned Split holds for that column and row
value_out(d, part, r, c) ==
    IF call.y_on = "n_children" /\ c = "n_children"
    THEN Table(heap, d, part, "y").rows[r]["n_children"]
    ELSE Table(heap, d, part, "X").rows[r][c]

RowsOf(d, part) == DOMAIN Table(heap, d, part, "X").rows

\* C1: run_scikit_experiment called with an unknown clf_label ends in an
\* error raised at the selection of the classifier, without reaching the fit
\* or the predict step and without a Metrics Result.
C1_UnknownLabelRaisesAtSelection ==
    (call.op = "run_scikit_experiment" /\ call.clf_label \notin KnownLabels
        /\ pc = "done")
    => /\ call.status = "raised"
       /\ call.raised_at = "select"
       /\ "fit" \notin Range(trace)
       /\ "predict" \notin Range(trace)
       /\ call.result = <<>>

\* C2: discretize_data called with a y_on other than 'class' and 'n_children'
\* raises and returns no Split.
C2_UnknownTargetRaises ==
    (call.op = "discretize_data" /\ call.y_on \notin KnownTargets)
    => (call.status = "raised" /\ disc = 0)

\* C3: a discretize_data call, whether it returns or raises, leaves every
\* object of the Split it was given (the Split's dicts and its four tables)
\* as it was, and the caller's variable still refers to that Split.
C3_InputSplitNotMutated ==
    [][(pc = "idle" /\ call'.op = "discretize_data")
       => /\ data' = data
          /\ \A a \in Reachable(heap, {data}) : heap'[a] = heap[a]]_vars

\* a discretize_data call returned a Split whose train features differ from
\* those of the Split it was given
C3_Witness ==
    /\ Discretized
    /\ call.y_on \in KnownTargets
    /\ disc # data
    /\ Table(heap, disc, "train", "X") # Table(heap, data, "train", "X")

\* the continuous values of the test partition of the Split at d moved by delta
shift_rows(frame, delta) ==
    [frame EXCEPT !.rows = [r \in DOMAIN frame.rows |->
        [c \in DOMAIN frame.rows[r] |->
            IF c \in {"wife_age", "n_children"} THEN frame.rows[r][c] + delta
            ELSE frame.rows[r][c]]]]

WithTest(h, d, delta) ==
    [h EXCEPT ![h[h[d].items["test"]].items["X"]] = shift_rows(@, delta),
              ![h[h[d].items["test"]].items["y"]] = shift_rows(@, delta)]

TestShifts == {0 - 20, 3, 40}

\* the call's outcome r has the estimator and the train partition of the
\* call that just returned
same_fit(r) ==
    /\ r.exc = ""
    /\ r.est = est
    /\ Table(r.heap, r.ds, "train", "X") = Table(heap, disc, "train", "X")
    /\ Table(r.heap, r.ds, "train", "y") = Table(heap, disc, "train", "y")

\* C4: the bin edges are fitted from the training partition alone (the same
\* call on a Split with another test partition yields the same estimator and
\* the same train partition), and the one fitted estimator gives every
\* discretized value of the train and of the test partition.
C4_EdgesFromTrainAppliedToBoth ==
    (Discretized /\ call.y_on \in KnownTargets)
    => /\ \A delta \in TestShifts :
             same_fit(discretize_data(WithTest(Collect(heap, {data}), data, delta),
                                      data, call.continuous_attrs, call.n_bins,
                                      call.y_on))
       /\ \A part \in Parts, c \in Range(call.continuous_attrs) :
             \A r \in RowsOf(data, part) :
                value_out(disc, part, r, c) = bin_index(est, c, value_in(data, part, r, c))

\* a returned call whose test partition holds, in a discretized column, a
\* value the train partition does not hold
C4_Witness ==
    /\ Discretized
    /\ call.y_on \in KnownTargets
    /\ \E c \in Range(call.continuous_attrs), r \in RowsOf(data, "test") :
          \A q \in RowsOf(data, "train") :
             value_in(data, "test", r, c) # value_in(data, "train", q, c)

\* C5: every value of a discretized column of the returned Split, train and
\* test, features and target, is an integer from 0 to n_bins - 1, also where
\* the raw test value lies outside the range of the train values.
C5_BinIndicesInRange ==
    (Discretized /\ call.y_on \in KnownTargets)
    => \A part \in Parts, key \in {"X", "y"} :
          \A c \in Range(call.continuous_attrs)
                      \cap Range(Table(heap, disc, part, key).columns) :
             \A r \in DOMAIN Table(heap, disc, part, key).rows :
                Table(heap, disc, part, key).rows[r][c] \in 0..(call.n_bins - 1)

\* a returned call with a test value above the largest train value of a
\* discretized column
C5_Witness ==
    /\ Discretized
    /\ call.y_on \in KnownTargets
    /\ \E c \in Range(call.continuous_attrs), r \in RowsOf(data, "test") :
          \A q \in RowsOf(data, "train") :
             value_in(data, "test", r, c) > value_in(data, "train", q, c)

\* (a) the target of both partitions is the n_children column, discretized
\* by the fitted estimator; (b) the feature tables have the columns of the
\* given train features, in their order, n_children not among them
children_target_discretized ==
    /\ "n_children" \in Range(est.columns)
    /\ \A part \in Parts :
          /\ Table(heap, disc, part, "y").columns = <<"n_children">>
          /\ \A r \in RowsOf(data, part) :
                /\ Table(heap, disc, part, "y").rows[r]["n_children"]
                     = bin_index(est, "n_children", value_in(data, part, r, "n_children"))
                /\ Table(heap, disc, part, "y").rows[r]["n_children"]
                     \in 0..(call.n_bins - 1)

children_features_kept ==
    \A part \in Parts :
       /\ Table(heap, disc, part, "X").columns = Table(heap, data, "train", "X").columns
       /\ "n_children" \notin Range(Table(heap, disc, part, "X").columns)

\* C6 as stated: in 'n_children' mode, for any list of continuous columns,
\* the returned target is the discretized n_children column and the feature
\* tables have exactly the given train feature columns, without n_children.
C6_AnyColumns ==
    (Discretized /\ call.y_on = "n_children")
    => (children_target_discretized /\ children_features_kept)

\* C6 amended: in 'n_children' mode, for a Split whose target is n_children
\* and a list of continuous columns that names n_children, the returned
\* target is the discretized n_children column and the feature tables have
\* exactly the given train feature columns, without n_children.
C6_TargetListed ==
    (Discretized /\ call.y_on = "n_children"
        /\ "n_children" \in Range(call.continuous_attrs)
        /\ Table(heap, data, "train", "y").columns = <<"n_children">>)
    => (children_target_discretized /\ children_features_kept)

\* such a call returned, and the target it stored differs from the raw one
C6_Witness ==
    /\ Discretized
    /\ call.y_on = "n_children"
    /\ "n_children" \in Range(call.continuous_attrs)
    /\ Table(heap, data, "train", "y").columns = <<"n_children">>
    /\ Table(heap, disc, "train", "y") # Table(heap, data, "train", "y")

\* C7: in 'class' mode the target of both partitions is unchanged, every
\* feature column outside the continuous list is unchanged, and every table
\* keeps its columns, its rows and their order.
C7_ClassModeFrame ==
    (Discretized /\ call.y_on = "class")
    => \A part \in Parts :
          /\ Table(heap, disc, part, "y") = Table(heap, data, part, "y")
          /\ Table(heap, disc, part, "X").columns = Table(heap, data, part, "X").columns
          /\ Table(heap, disc, part, "X").index = Table(heap, data, part, "X").index
          /\ Len(Table(heap, disc, part, "X").rows) = Len(Table(heap, data, part, "X").rows)
          /\ \A r \in RowsOf(data, part) :
                \A c \in Range(Table(heap, data, part, "X").columns)
                            \ Range(call.continuous_attrs) :
                   Table(heap, disc, part, "X").rows[r][c]
                     = Table(heap, data, part, "X").rows[r][c]

\* a 'class' mode call returned features that differ from the given ones
C7_Witness ==
    /\ Discretized
    /\ call.y_on = "class"
    /\ call.continuous_attrs # <<>>
    /\ Table(heap, disc, "train", "X") # Table(heap, data, "train", "X")
    /\ Table(heap, disc, "test", "X") # Table(heap, data, "test", "X")

\* the row of the Dataset with index label l
dataset_row(l) == dataset.rows[IndexOf(dataset.index, l)]

\* the Split at data partitions the rows of the Dataset: train and test
\* disjoint, together every row once, the test partition 20% of the rows
\* rounded up; features are the columns but y_on, the target is the y_on
\* column of the same rows in the same order
is_partition(y_on) ==
    /\ Range(Table(heap, data, "train", "X").index)
          \cap Range(Table(heap, data, "test", "X").index) = {}
    /\ Range(Table(heap, data, "train", "X").index)
          \cup Range(Table(heap, data, "test", "X").index) = Range(dataset.index)
    /\ Len(Table(heap, data, "train", "X").index)
          + Len(Table(heap, data, "test", "X").index) = Len(dataset.index)
    /\ 5 * Len(Table(heap, data, "test", "X").index) >= Len(dataset.index)
    /\ 5 * (Len(Table(heap, data, "test", "X").index) - 1) < Len(dataset.index)
    /\ \A part \in Parts :
          /\ Table(heap, data, part, "X").columns
                = SelectSeq(dataset.columns, LAMBDA c : c # y_on)
          /\ Table(heap, data, part, "y").columns = <<y_on>>
          /\ Table(heap, data, part, "y").index = Table(heap, data, part, "X").index
          /\ \A r \in RowsOf(data, part) :
                /\ Table(heap, data, part, "y").rows[r][y_on]
                     = dataset_row(Table(heap, data, part, "X").index[r])[y_on]
                /\ \A c \in Range(Table(heap, data, part, "X").columns) :
                      Table(heap, data, part, "X").rows[r][c]
                        = dataset_row(Table(heap, data, part, "X").index[r])[c]

\* C8 as stated: for every Dataset and every y_on naming one of its columns,
\* split_data returns a Split that partitions the rows.
C8_EveryDataset ==
    (call.op = "split_data" /\ call.y_on \in Range(dataset.columns))
    => (call.status = "returned" /\ is_partition(call.y_on))

\* C8 amended: for every Dataset of at least two rows and every y_on naming
\* one of its columns, split_data returns a Split that partitions the rows;
\* for a Dataset of fewer than two rows the call raises ValueError.
C8_TwoRowsOrMore ==
    (call.op = "split_data" /\ call.y_on \in Range(dataset.columns))
    => IF Len(dataset.index) >= 2
       THEN call.status = "returned" /\ is_partition(call.y_on)
       ELSE call.status = "raised" /\ call.exc = "ValueError"

\* split_data returned a Split with two test rows
C8_Witness ==
    /\ call.op = "split_data"
    /\ call.status = "returned"
    /\ Len(Table(heap, data, "test", "X").index) = 2
    /\ Len(Table(heap, data, "train", "X").index) = 4

\* the outcome r of a split_data call is the outcome of the call that just
\* ended, and the call left the global generator in state g
same_split(r, g) ==
    /\ r.np_random = g
    /\ r.exc = call.exc
    /\ r.exc = "" => \A part \in Parts, key \in {"X", "y"} :
                        Table(r.heap, r.ret, part, key) = Table(heap, data, part, key)

\* C9: split_data is a function of the Dataset and y_on alone: whatever the
\* state of the global generator, the call has the outcome of the call that
\* just ended and leaves the generator's state as it found it.
C9_SplitDeterministic ==
    call.op = "split_data"
    => \A g \in 0..(RngMod - 1) :
          same_split(split_data(EmptyHeap, dataset, call.y_on, g), g)

\* split_data returned after an earlier Split had been discretized
C9_Witness ==
    /\ call.op = "split_data"
    /\ call.status = "returned"
    /\ disc # 0
    /\ Len(dataset.index) >= 3

\* the steps run so far, the message printed at selection left out
steps == SelectSeq(trace, LAMBDA t : t # "print")

Running == call.op \in {"run_experiment", "run_scikit_experiment"}

\* C10: both runners select the model, fit on the train partition, predict
\* on the test features and score the predictions against the true test
\* target with macro averaging, each step once and in this order; a failure
\* of fit or predict ends the run at that step with the library's exception
\* and without a Metrics Result.
C10_StepsOnceInOrder ==
    Running =>
       /\ pc = "fit" => steps = <<"select">>
       /\ pc = "predict" => steps = <<"select", "fit">>
       /\ pc = "score" => steps = <<"select", "fit", "predict">>
       /\ pc \in {"predict", "score"} =>
             /\ clf.fit_X = heap[heap[call.arg].items["train"]].items["X"]
             /\ clf.fit_y = heap[heap[call.arg].items["train"]].items["y"]
       /\ pc = "score" => Len(y_pred) = Len(Table(heap, call.arg, "test", "X").index)
       /\ (pc = "done" /\ call.status = "returned") =>
             /\ steps = <<"select", "fit", "predict", "score">>
             /\ call.result = <<get_metrics(values_of(Table(heap, call.arg, "test", "y")),
                                            y_pred, "macro")>>
       /\ (pc = "done" /\ call.status = "raised") =>
             /\ call.raised_at \in {"fit", "predict"}
             /\ steps = IF call.raised_at = "fit" THEN <<"select", "fit">>
                        ELSE <<"select", "fit", "predict">>
             /\ call.exc = call.thrown
             /\ call.result = <<>>

\* a run ended by an exception of the library's predict
C10_Witness ==
    /\ Running
    /\ pc = "done"
    /\ call.status = "raised"
    /\ call.raised_at = "predict"
    /\ call.exc \in LibraryErrors

====
